---- MODULE Spec2Model ----
(***************************************************************************)
(* Model of feed_aggregator/main.py: the date helpers, the two dialect     *)
(* extractors, the inclusion filters and the aggregation loop of main().   *)
(*                                                                         *)
(* Python str values are sequences of one-character strings, so that the   *)
(* slicing and indexing of the date helpers is modelled as written.        *)
(* Python None is the distinguished value None below.                      *)
(***************************************************************************)
EXTENDS Integers, Sequences, FiniteSets, TLC

VARIABLES
    pc,                \* position of main(): "loop", "entries", "render", "done", "raised"
    raised,            \* the uncaught exception that ended main(), and where it was raised
    feeds,             \* config['feeds']
    argname,           \* args.name
    feedidx,           \* index of the feed the for loop of main() is at
    feedtype,          \* main's local feedtype
    include_all,       \* main's local include_all
    sources,           \* the FeedSource objects built so far, by the feed that built them
    aggregated_posts,  \* main's aggregated_posts
    confignameSets,    \* history: per feed, how many times lines 208-211 ran
    extractCalls,      \* history: per feed, how many post extractions were started
    feedtypes,         \* history: per feed, the feedtype it was processed with
    origin,            \* history: per Post object, the feed whose entry it was built from
    isoIn, isoOut,     \* argument and result of isoformat_to_rfc3339
    fCategory, fPosts, fEntry, fResult   \* arguments and result of the filter functions

vars == <<pc, raised, feeds, argname, feedidx, feedtype, include_all, sources,
          aggregated_posts, confignameSets,
          extractCalls, feedtypes, origin, isoIn, isoOut, fCategory, fPosts, fEntry, fResult>>

mainVars == <<pc, raised, feeds, argname, feedidx, feedtype, include_all, sources,
              aggregated_posts, confignameSets,
              extractCalls, feedtypes, origin>>
isoVars == <<isoIn, isoOut>>
filterVars == <<fCategory, fPosts, fEntry, fResult>>

(***************************************************************************)
(* Bounds                                                                  *)
(***************************************************************************)
MaxFeeds == 2
MaxEntries == 2
MaxCategories == 2
HourSpan == 5

(***************************************************************************)
(* Strings                                                                 *)
(***************************************************************************)
None == <<"<None>">>

Digit == <<"0", "1", "2", "3", "4", "5", "6", "7", "8", "9">>
DigitVal(c) == CHOOSE d \in 0..9 : Digit[d + 1] = c
IsDigit(c) == \E d \in 0..9 : Digit[d + 1] = c
TwoDigits(n) == <<Digit[(n \div 10) + 1], Digit[(n % 10) + 1]>>

\* s[0:-n]
DropLast(s, n) == IF Len(s) <= n THEN <<>> ELSE SubSeq(s, 1, Len(s) - n)
\* s[-n]
FromEnd(s, n) == s[Len(s) - n + 1]
\* s.endswith(<<c>>)
EndsWith(s, c) == Len(s) >= 1 /\ s[Len(s)] = c

DateText == <<"2", "0", "2", "4", "-", "1", "0", "-", "0", "2">>

(***************************************************************************)
(* datetime: [hour, minute, aware, utcoffset]; utcoffset is in minutes and *)
(* is 0 for a naive datetime (aware = FALSE).  error is "" for a value.    *)
(***************************************************************************)
Abs(n) == IF n < 0 THEN -n ELSE n

DateTime(h, m, aware, off) ==
    [error |-> "", hour |-> h, minute |-> m, aware |-> aware, utcoffset |-> off]
DateError(kind) ==
    [error |-> kind, hour |-> 0, minute |-> 0, aware |-> FALSE, utcoffset |-> 0]

OffsetText(dt) ==
    IF ~dt.aware THEN <<>>
    ELSE <<IF dt.utcoffset < 0 THEN "-" ELSE "+">> \o TwoDigits(Abs(dt.utcoffset) \div 60)
         \o <<":">> \o TwoDigits(Abs(dt.utcoffset) % 60)

\* datetime.isoformat()
isoformat(dt) ==
    DateText \o <<"T">> \o TwoDigits(dt.hour) \o <<":">> \o TwoDigits(dt.minute)
    \o <<":", "0", "0">> \o OffsetText(dt)

\* value of the digits t[i], t[i+1]
Num2(t, i) == DigitVal(t[i]) * 10 + DigitVal(t[i + 1])

\* datetime.datetime.fromisoformat(s), Python 3.11, on texts of the date DateText
fromisoformat(s) ==
    IF s = None THEN DateError("TypeError")
    ELSE IF \/ Len(s) < 13
            \/ SubSeq(s, 1, 11) # DateText \o <<"T">>
            \/ ~IsDigit(s[12]) \/ ~IsDigit(s[13])
    THEN DateError("ValueError")
    ELSE LET rest == SubSeq(s, 14, Len(s))
             hasMin == Len(rest) >= 3 /\ rest[1] = ":" /\ IsDigit(rest[2]) /\ IsDigit(rest[3])
             minute == IF hasMin THEN Num2(rest, 2) ELSE 0
             rest2 == IF hasMin THEN SubSeq(rest, 4, Len(rest)) ELSE rest
             hasSec == hasMin /\ Len(rest2) >= 3 /\ SubSeq(rest2, 1, 3) = <<":", "0", "0">>
             tz == IF hasSec THEN SubSeq(rest2, 4, Len(rest2)) ELSE rest2
         IN  IF tz = <<>> THEN DateTime(Num2(s, 12), minute, FALSE, 0)
             ELSE IF tz = <<"Z">> THEN DateTime(Num2(s, 12), minute, TRUE, 0)
             ELSE IF /\ Len(tz) = 6 /\ tz[1] \in {"+", "-"} /\ tz[4] = ":"
                     /\ \A k \in {2, 3, 5, 6} : IsDigit(tz[k])
                  THEN DateTime(Num2(s, 12), minute, TRUE,
                                (IF tz[1] = "-" THEN -1 ELSE 1) * (Num2(tz, 2) * 60 + Num2(tz, 5)))
             ELSE DateError("ValueError")

Rfc822Prefix == <<"W", "e", "d", ",", " ", "0", "2", " ", "O", "c", "t", " ", "2", "0", "2", "4", " ">>

\* the RFC 822 text of a time of day and a zone, as a feed writes it
Rfc822(h, m, zone) ==
    Rfc822Prefix \o TwoDigits(h) \o <<":">> \o TwoDigits(m) \o <<":", "0", "0", " ">> \o zone

\* email.utils.parsedate_to_datetime(s), on texts of the date Rfc822Prefix:
\* a zone of -0000 gives a naive datetime
parsedate_to_datetime(s) ==
    IF s = None THEN DateError("TypeError")
    ELSE IF \/ Len(s) < Len(Rfc822Prefix) + 8
            \/ SubSeq(s, 1, Len(Rfc822Prefix)) # Rfc822Prefix
    THEN DateError("ValueError")
    ELSE LET t == SubSeq(s, Len(Rfc822Prefix) + 1, Len(s))
             zone == SubSeq(t, 10, Len(t))
         IN  IF ~(IsDigit(t[1]) /\ IsDigit(t[2]) /\ IsDigit(t[4]) /\ IsDigit(t[5]))
             THEN DateError("ValueError")
             ELSE IF zone \in {<<"G", "M", "T">>, <<"U", "T">>}
             THEN DateTime(Num2(t, 1), Num2(t, 4), TRUE, 0)
             ELSE IF zone = <<"-", "0", "0", "0", "0">>
             THEN DateTime(Num2(t, 1), Num2(t, 4), FALSE, 0)
             ELSE IF /\ Len(zone) = 5 /\ zone[1] \in {"+", "-"}
                     /\ \A k \in 2..5 : IsDigit(zone[k])
             THEN DateTime(Num2(t, 1), Num2(t, 4), TRUE,
                           (IF zone[1] = "-" THEN -1 ELSE 1) * (Num2(zone, 2) * 60 + Num2(zone, 4)))
             ELSE DateTime(Num2(t, 1), Num2(t, 4), FALSE, 0)

IndexError == <<"<IndexError>">>

isoformat_to_rfc3339(isofmt) ==
    IF Len(isofmt) < 6 THEN IndexError
    ELSE LET s1 == IF FromEnd(isofmt, 6) = "+" /\ FromEnd(isofmt, 3) = ":"
                   THEN DropLast(isofmt, 6) ELSE isofmt
         IN  IF ~EndsWith(s1, "Z") THEN s1 \o <<"Z">> ELSE s1

(***************************************************************************)
(* XML: an element is [present, text, attrs]; find() of a missing child    *)
(* gives Absent (Python None), whose .text or .get raises AttributeError.  *)
(***************************************************************************)
NoAttrs == [a \in {} |-> None]
NoChildren == [a \in {} |-> None]
Absent == [present |-> FALSE, text |-> None, attrs |-> NoAttrs, children |-> NoChildren]
Elem(text) == [present |-> TRUE, text |-> text, attrs |-> NoAttrs, children |-> NoChildren]
ElemA(text, attrs) == [present |-> TRUE, text |-> text, attrs |-> attrs, children |-> NoChildren]
ElemC(children) == [present |-> TRUE, text |-> None, attrs |-> NoAttrs, children |-> children]

\* element.get(key)
Get(el, key) == IF key \in DOMAIN el.attrs THEN el.attrs[key] ELSE None

\* node.find(name): node.children maps the names of the children it has
Find(node, name) == IF name \in DOMAIN node.children THEN node.children[name] ELSE Absent

(***************************************************************************)
(* The dataclasses                                                         *)
(***************************************************************************)
\* FeedSource.author = None
NoAuthor == [isNone |-> TRUE, name |-> None, configname |-> None, uri |-> None, email |-> None]
Author(name, configname, uri, email) ==
    [isNone |-> FALSE, name |-> name, configname |-> configname, uri |-> uri, email |-> email]

FeedSource(id_, title, link, author, updated) ==
    [built |-> TRUE, error |-> "", id_ |-> id_, title |-> title, link |-> link,
     author |-> author, updated |-> updated]
\* no FeedSource object: the slot of a feed that built none, or a raised exception
NoSource(error) ==
    [built |-> FALSE, error |-> error, id_ |-> None, title |-> None, link |-> None,
     author |-> NoAuthor, updated |-> None]

\* source is a reference: the index of the FeedSource object in sources;
\* obj is the identity of the Post object, given when main() keeps it
Post(title, published, id_, link, source, summary, content) ==
    [error |-> "", title |-> title, published |-> published, id_ |-> id_, link |-> link,
     source |-> source, summary |-> summary, content |-> content, obj |-> 0]
NoPost(error) ==
    [error |-> error, title |-> None, published |-> None, id_ |-> None, link |-> None,
     source |-> 0, summary |-> None, content |-> None, obj |-> 0]

(***************************************************************************)
(* Extraction                                                              *)
(***************************************************************************)
\* isoformat()[0:-6] + 'Z'
StripToZ(dt) == DropLast(isoformat(dt), 6) \o <<"Z">>

extract_rss_feedsource(feed) ==
    LET channel == Find(feed, "channel")
        title == Find(channel, "title")
        lastBuildDate == Find(channel, "lastBuildDate")
        parsed == parsedate_to_datetime(lastBuildDate.text)
        link == Find(channel, "link")
    IN  IF ~channel.present \/ ~title.present THEN NoSource("AttributeError")
        ELSE IF lastBuildDate.present /\ parsed.error # "" THEN NoSource(parsed.error)
        ELSE IF ~link.present THEN NoSource("AttributeError")
        ELSE FeedSource(link.text, title.text, link.text, NoAuthor,
                        IF lastBuildDate.present THEN StripToZ(parsed) ELSE None)

extract_atom_feedsource(feed) ==
    LET title == Find(feed, "atom:title")
        updated == Find(feed, "atom:updated")
        link == Find(feed, "atom:link")
        id_ == Find(feed, "atom:id")
        author == Find(feed, "atom:author")
        name == Find(author, "atom:name")
        uri == Find(author, "atom:uri")
        email == Find(author, "atom:email")
    IN  IF ~title.present \/ ~updated.present \/ ~link.present \/ ~id_.present
        THEN NoSource("AttributeError")
        ELSE IF author.present /\ ~name.present THEN NoSource("AttributeError")
        ELSE FeedSource(id_.text, title.text, Get(link, "href"),
                        IF author.present
                        THEN Author(name.text, None,
                                    IF uri.present THEN uri.text ELSE None,
                                    IF email.present THEN email.text ELSE None)
                        ELSE NoAuthor,
                        updated.text)

\* extract_rss_post keeping the ISO text of the parsed pubDate as it is
extract_rss_post_keepsOffset(source, entry) ==
    LET title == Find(entry, "title")
        pubDate == Find(entry, "pubDate")
        parsed == parsedate_to_datetime(pubDate.text)
        encoded == Find(entry, "content:encoded")
        description == Find(entry, "description")
        guid == Find(entry, "guid")
        link == Find(entry, "link")
    IN  IF ~title.present \/ ~pubDate.present THEN NoPost("AttributeError")
        ELSE IF parsed.error # "" THEN NoPost(parsed.error)
        ELSE IF ~encoded.present /\ ~description.present THEN NoPost("AttributeError")
        ELSE IF ~guid.present \/ ~link.present THEN NoPost("AttributeError")
        ELSE Post(title.text, isoformat(parsed), guid.text, link.text, source,
                  IF encoded.present /\ description.present THEN description.text ELSE None,
                  IF encoded.present THEN encoded.text ELSE description.text)

extract_rss_post(source, entry) ==
    LET title == Find(entry, "title")
        pubDate == Find(entry, "pubDate")
        parsed == parsedate_to_datetime(pubDate.text)
        encoded == Find(entry, "content:encoded")
        description == Find(entry, "description")
        guid == Find(entry, "guid")
        link == Find(entry, "link")
    IN  IF ~title.present \/ ~pubDate.present THEN NoPost("AttributeError")
        ELSE IF parsed.error # "" THEN NoPost(parsed.error)
        ELSE IF ~encoded.present /\ ~description.present THEN NoPost("AttributeError")
        ELSE IF ~guid.present \/ ~link.present THEN NoPost("AttributeError")
        ELSE Post(title.text, StripToZ(parsed), guid.text, link.text, source,
                  IF encoded.present /\ description.present THEN description.text ELSE None,
                  IF encoded.present THEN encoded.text ELSE description.text)

extract_atom_post(source, entry) ==
    LET title == Find(entry, "atom:title")
        published == IF Find(entry, "atom:published").present
                     THEN Find(entry, "atom:published") ELSE Find(entry, "atom:updated")
        content == Find(entry, "atom:content")
        summary == Find(entry, "atom:summary")
        id_ == Find(entry, "atom:id")
        link == Find(entry, "atom:link")
    IN  IF ~title.present \/ ~published.present \/ ~id_.present \/ ~link.present
        THEN NoPost("AttributeError")
        ELSE Post(title.text, published.text, id_.text, Get(link, "href"), source,
                  IF summary.present THEN summary.text ELSE None,
                  IF content.present THEN content.text ELSE None)

(***************************************************************************)
(* Filters.  A policy is [configured, specs]: feed.get(key) is None when   *)
(* configured is FALSE; specs is the list of mappings, each mapping the    *)
(* sequence of its (key, value) items in dict order.                       *)
(***************************************************************************)
Unconfigured == [configured |-> FALSE, specs |-> <<>>]
Policy(specs) == [configured |-> TRUE, specs |-> specs]

\* the test of lines 122-126: TRUE when the item makes the loop break
ItemBreaks(postcat, item) ==
    IF item[1] = "text" THEN postcat.text # item[2]
    ELSE Get(postcat, item[1]) # item[2]

\* the for loop of line 121 from item k on: TRUE when it ends without a break
RECURSIVE ItemsLoop(_, _, _)
ItemsLoop(allowed, postcat, k) ==
    IF k > Len(allowed) THEN TRUE
    ELSE IF ItemBreaks(postcat, allowed[k]) THEN FALSE
    ELSE ItemsLoop(allowed, postcat, k + 1)

\* the for loop of line 120 from category j on: TRUE when it returns True
RECURSIVE PostcatLoop(_, _, _)
PostcatLoop(allowed, post_categories, j) ==
    IF j > Len(post_categories) THEN FALSE
    ELSE IF ItemsLoop(allowed, post_categories[j], 1) THEN TRUE
    ELSE PostcatLoop(allowed, post_categories, j + 1)

\* the for loop of line 119 from mapping i on
RECURSIVE AllowedLoop(_, _, _)
AllowedLoop(specs, post_categories, i) ==
    IF i > Len(specs) THEN FALSE
    ELSE IF PostcatLoop(specs[i], post_categories, 1) THEN TRUE
    ELSE AllowedLoop(specs, post_categories, i + 1)

\* matches_category with the pairs of a mapping free to match different elements
matches_category_anyElement(spec, entry) ==
    /\ spec.configured
    /\ \E i \in 1..Len(spec.specs) :
         /\ entry.cats # <<>>
         /\ \A k \in 1..Len(spec.specs[i]) :
              \E j \in 1..Len(entry.cats) : ~ItemBreaks(entry.cats[j], spec.specs[i][k])

matches_category(spec, entry) ==
    IF ~spec.configured THEN FALSE
    ELSE AllowedLoop(spec.specs, entry.cats, 1)

\* the for loop of line 137 from item k on: TRUE when it returns True
RECURSIVE PostItemsLoop(_, _, _)
PostItemsLoop(allowed, entry, k) ==
    IF k > Len(allowed) THEN FALSE
    ELSE LET element == Find(entry, allowed[k][1])
         IN  IF element.present /\ element.text = allowed[k][2] THEN TRUE
             ELSE PostItemsLoop(allowed, entry, k + 1)

\* the for loop of line 136 from mapping i on
RECURSIVE PostAllowedLoop(_, _, _)
PostAllowedLoop(specs, entry, i) ==
    IF i > Len(specs) THEN FALSE
    ELSE IF PostItemsLoop(specs[i], entry, 1) THEN TRUE
    ELSE PostAllowedLoop(specs, entry, i + 1)

matches_posts(spec, entry) ==
    IF ~spec.configured THEN FALSE
    ELSE PostAllowedLoop(spec.specs, entry, 1)

\* line 214
IncludeAll(feed) == ~feed.category.configured /\ ~feed.posts.configured

\* lines 216-218 with the two policies joined by "and"
ShouldInclude_bothRequired(includeAll, feed, entry) ==
    \/ includeAll
    \/ /\ matches_category(feed.category, entry)
       /\ matches_posts(feed.posts, entry)

\* lines 216-218
ShouldInclude(includeAll, feed, entry) ==
    \/ includeAll
    \/ matches_category(feed.category, entry)
    \/ matches_posts(feed.posts, entry)

(***************************************************************************)
(* Sorting: line 223 computes every key, then sorts stably and ascending   *)
(* by key; line 224 reverses the list.                                     *)
(***************************************************************************)
Key(post) == fromisoformat(post.published)

\* the value datetime comparison orders by: minutes of the day, in UTC when aware
Instant(dt) == dt.hour * 60 + dt.minute - dt.utcoffset

\* the exception of line 223, "" when there is none: a key that cannot be
\* computed, or a comparison of a naive with an aware datetime
SortError(posts) ==
    IF \E i \in 1..Len(posts) : Key(posts[i]).error = "TypeError" THEN "TypeError"
    ELSE IF \E i \in 1..Len(posts) : Key(posts[i]).error # "" THEN "ValueError"
    ELSE IF \E i, j \in 1..Len(posts) : Key(posts[i]).aware # Key(posts[j]).aware THEN "TypeError"
    ELSE ""

\* x put into the ascending list s behind every element that is not greater
RECURSIVE InsertStable(_, _)
InsertStable(s, x) ==
    IF s = <<>> THEN <<x>>
    ELSE IF Instant(Key(Head(s))) <= Instant(Key(x)) THEN <<Head(s)>> \o InsertStable(Tail(s), x)
    ELSE <<x>> \o s

\* list.sort(key=...)
RECURSIVE SortByKey(_)
SortByKey(posts) ==
    IF posts = <<>> THEN <<>>
    ELSE InsertStable(SortByKey(SubSeq(posts, 1, Len(posts) - 1)), posts[Len(posts)])

\* list.reverse()
Reverse(s) == [i \in 1..Len(s) |-> s[Len(s) + 1 - i]]

\* lines 223-224 without the reverse
SortedPosts_noReverse(posts) == SortByKey(posts)

\* lines 223-224 as sort(reverse=True), which keeps equal keys in list order
SortedPosts_stableDescending(posts) == Reverse(SortByKey(Reverse(posts)))

\* lines 223-224
SortedPosts(posts) == Reverse(SortByKey(posts))

(***************************************************************************)
(* main(): configuration and fetched documents                             *)
(***************************************************************************)
FeedName(i) == <<"f", Digit[i + 1]>>

Tech == <<"t", "e", "c", "h">>
News == <<"n", "e", "w", "s">>
TitleText == <<"t">>

NoPolicy == [category |-> Unconfigured, posts |-> Unconfigured]
BothPolicies ==
    [category |-> Policy(<< << <<"text", Tech>> >> >>),
     posts |-> Policy(<< << <<"title", TitleText>> >> >>)]
MainPolicies == {NoPolicy, BothPolicies}

FeedConfig(i, policy) ==
    [name |-> FeedName(i), category |-> policy.category, posts |-> policy.posts]

\* the documents requests.get may return
Node(root, children) == [root |-> root, children |-> children]

GmtZone == <<"G", "M", "T">>
RssChannel(withTitle) ==
    ElemC((IF withTitle THEN "title" :> Elem(<<"R">>) ELSE NoChildren)
          @@ "link" :> Elem(<<"r">>)
          @@ "lastBuildDate" :> Elem(Rfc822(12, 0, GmtZone)))
AtomFeed(withId, withAuthor) ==
    (IF withId THEN "atom:id" :> Elem(<<"i">>) ELSE NoChildren)
    @@ (IF withAuthor
        THEN "atom:author" :> ElemC("atom:name" :> Elem(<<"n">>) @@ "atom:email" :> Elem(<<"e">>))
        ELSE NoChildren)
    @@ "atom:title" :> Elem(<<"A">>)
    @@ "atom:updated" :> Elem(isoformat(DateTime(12, 0, TRUE, 0)))
    @@ "atom:link" :> ElemA(None, "href" :> <<"a">>)

Documents ==
    {Node("rss", "channel" :> RssChannel(w)) : w \in BOOLEAN}
    \cup {Node("rss", NoChildren)}
    \cup {Node("atom:feed", AtomFeed(i, a)) : i, a \in BOOLEAN}
    \cup {Node("html", NoChildren)}

\* the entries a document may hold
Entry(children, cats) == [children |-> children, cats |-> cats]

CatLists == {<<>>, <<Elem(Tech)>>}

Opt(with, name, el) == IF with THEN name :> el ELSE NoChildren

RssItem(title, pubDate, withEncoded, withGuid) ==
    "title" :> title @@ "pubDate" :> pubDate
    @@ Opt(withEncoded, "content:encoded", Elem(<<"c">>))
    @@ "description" :> Elem(<<"d">>)
    @@ Opt(withGuid, "guid", Elem(<<"g">>))
    @@ "link" :> Elem(<<"l">>)

MinusZero == <<"-", "0", "0", "0", "0">>
PlusTwo == <<"+", "0", "2", "0", "0">>

RssItems ==
    {RssItem(Elem(TitleText), Elem(Rfc822(10, 0, GmtZone)), FALSE, TRUE),
     RssItem(Elem(TitleText), Elem(Rfc822(11, 0, PlusTwo)), TRUE, TRUE),
     RssItem(Elem(TitleText), Elem(Rfc822(10, 0, MinusZero)), FALSE, TRUE),
     RssItem(Elem(None), Elem(Rfc822(10, 0, GmtZone)), FALSE, TRUE),
     RssItem(Elem(TitleText), Elem(None), FALSE, TRUE),
     RssItem(Elem(TitleText), Elem(Rfc822(10, 0, GmtZone)), FALSE, FALSE)}

AtomEntry(published, updated, link, withId) ==
    "atom:title" :> Elem(<<"u">>)
    @@ published @@ updated
    @@ "atom:summary" :> Elem(<<"s">>)
    @@ Opt(withId, "atom:id", Elem(<<"i">>))
    @@ "atom:link" :> link

Published(text) == "atom:published" :> Elem(text)
Updated(text) == "atom:updated" :> Elem(text)
Href == ElemA(None, "href" :> <<"h">>)

AtomEntries ==
    {AtomEntry(Published(isoformat(DateTime(10, 0, TRUE, 0))), NoChildren, Href, TRUE),
     AtomEntry(Published(isoformat(DateTime(11, 0, TRUE, 120))), NoChildren, Href, TRUE),
     AtomEntry(Published(None), NoChildren, Href, TRUE),
     AtomEntry(NoChildren, Updated(isoformat(DateTime(11, 0, FALSE, 0))), Href, TRUE),
     AtomEntry(NoChildren, NoChildren, Href, TRUE),
     AtomEntry(Published(StripToZ(DateTime(10, 0, TRUE, 0))), NoChildren, Elem(None), TRUE),
     AtomEntry(Published(StripToZ(DateTime(10, 0, TRUE, 0))), NoChildren, Href, FALSE)}

Entries == {Entry(c, cats) : c \in RssItems \cup AtomEntries, cats \in CatLists}

(***************************************************************************)
(* main()                                                                  *)
(***************************************************************************)
NoException == [exc |-> "", at |-> "", feed |-> 0]
Exception(exc, at, feed) == [exc |-> exc, at |-> at, feed |-> feed]

FeedIndexes == 1..MaxFeeds

\* the state main() starts in, for a configuration and a --name argument
MainStarts(config, name) ==
    /\ pc = "loop"
    /\ raised = NoException
    /\ feeds = config
    /\ argname = name
    /\ feedidx = 1
    /\ feedtype = "None"
    /\ include_all = FALSE
    /\ sources = [i \in FeedIndexes |-> NoSource("")]
    /\ aggregated_posts = <<>>
    /\ confignameSets = [i \in FeedIndexes |-> 0]
    /\ extractCalls = [i \in FeedIndexes |-> 0]
    /\ feedtypes = [i \in FeedIndexes |-> "None"]
    /\ origin = <<>>

InitMain ==
    \E policies \in [FeedIndexes -> MainPolicies], name \in {None, FeedName(1)} :
        MainStarts([i \in FeedIndexes |-> FeedConfig(i, policies[i])], name)

\* main() is not running
NoMain == MainStarts(<<>>, None)

InitIso == isoIn = None /\ isoOut = None
InitFilter ==
    /\ fCategory = Unconfigured /\ fPosts = Unconfigured
    /\ fEntry = Entry(NoChildren, <<>>) /\ fResult = [op |-> "", value |-> FALSE]

Init == InitMain /\ InitIso /\ InitFilter

\* line 194
Skipped(feed) == argname # None /\ feed.name # argname

\* lines 200-207: the feed type and the FeedSource, or the exception raised
DetectAndExtract(xmlfeed) ==
    IF xmlfeed.root = "rss" THEN [feedtype |-> "rss", source |-> extract_rss_feedsource(xmlfeed)]
    ELSE IF xmlfeed.root = "atom:feed"
    THEN [feedtype |-> "atom", source |-> extract_atom_feedsource(xmlfeed)]
    ELSE [feedtype |-> "None", source |-> NoSource("AssertionError")]

\* lines 208-211 without the else branch
SetConfigname_onlyExisting(feedsource, name) ==
    IF ~feedsource.author.isNone
    THEN [feedsource EXCEPT !.author.configname = name]
    ELSE feedsource

\* lines 208-211
SetConfigname(feedsource, name) ==
    IF ~feedsource.author.isNone
    THEN [feedsource EXCEPT !.author.configname = name]
    ELSE [feedsource EXCEPT !.author = Author(None, name, None, None)]

\* lines 194-195
SkipFeed ==
    /\ pc = "loop" /\ feedidx <= Len(feeds)
    /\ Skipped(feeds[feedidx])
    /\ feedidx' = feedidx + 1
    /\ UNCHANGED <<pc, raised, feeds, argname, feedtype, include_all, sources,
                   aggregated_posts, confignameSets, extractCalls>>
    /\ UNCHANGED <<feedtypes, origin, isoVars, filterVars>>

\* lines 196-214, the document being one with a known root and every required element
FetchFeed ==
    /\ pc = "loop" /\ feedidx <= Len(feeds)
    /\ ~Skipped(feeds[feedidx])
    /\ \E xmlfeed \in Documents :
         LET got == DetectAndExtract(xmlfeed) IN
         /\ got.source.error = ""
         /\ feedtype' = got.feedtype
         /\ sources' = [sources EXCEPT ![feedidx] = SetConfigname(got.source, feeds[feedidx].name)]
    /\ confignameSets' = [confignameSets EXCEPT ![feedidx] = @ + 1]
    /\ include_all' = IncludeAll(feeds[feedidx])
    /\ feedtypes' = [feedtypes EXCEPT ![feedidx] = feedtype']
    /\ pc' = "entries"
    /\ UNCHANGED <<raised, feeds, argname, feedidx, aggregated_posts, extractCalls>>
    /\ UNCHANGED <<origin, isoVars, filterVars>>

\* lines 196-207, the assertion or the source extraction raising
FetchFeedRaises ==
    /\ pc = "loop" /\ feedidx <= Len(feeds)
    /\ ~Skipped(feeds[feedidx])
    /\ \E xmlfeed \in Documents :
         LET got == DetectAndExtract(xmlfeed) IN
         /\ got.source.error # ""
         /\ raised' = Exception(got.source.error, "source", feedidx)
    /\ pc' = "raised"
    /\ UNCHANGED <<feeds, argname, feedidx, feedtype, include_all, sources,
                   aggregated_posts, confignameSets, extractCalls>>
    /\ UNCHANGED <<feedtypes, origin, isoVars, filterVars>>

\* lines 220-221: the extractor of the feed's type, called with the feed's FeedSource
ExtractPost(type, feedsource, entry) ==
    IF type = "rss" THEN extract_rss_post(feedsource, entry)
    ELSE extract_atom_post(feedsource, entry)

\* aggregated_posts.append(post): post is the n-th object appended
AppendPost(posts, post) ==
    Append(posts, [post EXCEPT !.obj = Len(posts) + 1])

\* lines 215-219, an entry the filter leaves out
ExcludeEntry ==
    /\ pc = "entries"
    /\ \E entry \in Entries : ~ShouldInclude(include_all, feeds[feedidx], entry)
    /\ UNCHANGED <<pc, raised, feeds, argname, feedidx, feedtype, include_all, sources,
                   aggregated_posts, confignameSets, extractCalls>>
    /\ UNCHANGED <<feedtypes, origin, isoVars, filterVars>>

\* lines 215-221, an entry the filter keeps and the extractor builds a Post from
IncludeEntry ==
    /\ pc = "entries" /\ Len(aggregated_posts) < MaxEntries
    /\ \E entry \in Entries :
         LET post == ExtractPost(feedtype, feedidx, entry) IN
         /\ ShouldInclude(include_all, feeds[feedidx], entry)
         /\ post.error = ""
         /\ aggregated_posts' = AppendPost(aggregated_posts, post)
    /\ extractCalls' = [extractCalls EXCEPT ![feedidx] = @ + 1]
    /\ origin' = Append(origin, feedidx)
    /\ UNCHANGED <<pc, raised, feeds, argname, feedidx, feedtype, include_all, sources,
                   confignameSets>>
    /\ UNCHANGED <<feedtypes, isoVars, filterVars>>

\* lines 215-221, an entry the filter keeps and the extractor raises on
EntryRaises ==
    /\ pc = "entries" /\ Len(aggregated_posts) < MaxEntries
    /\ \E entry \in Entries :
         LET post == ExtractPost(feedtype, feedidx, entry) IN
         /\ ShouldInclude(include_all, feeds[feedidx], entry)
         /\ post.error # ""
         /\ raised' = Exception(post.error, "entry", feedidx)
    /\ pc' = "raised"
    /\ extractCalls' = [extractCalls EXCEPT ![feedidx] = @ + 1]
    /\ UNCHANGED <<feeds, argname, feedidx, feedtype, include_all, sources,
                   aggregated_posts, confignameSets>>
    /\ UNCHANGED <<feedtypes, origin, isoVars, filterVars>>

\* line 215: the entries of the document are exhausted
EndFeed ==
    /\ pc = "entries"
    /\ feedidx' = feedidx + 1
    /\ pc' = "loop"
    /\ UNCHANGED <<raised, feeds, argname, feedtype, include_all, sources,
                   aggregated_posts, confignameSets, extractCalls>>
    /\ UNCHANGED <<feedtypes, origin, isoVars, filterVars>>

\* lines 223-224
SortPosts ==
    /\ pc = "loop" /\ feedidx > Len(feeds)
    /\ SortError(aggregated_posts) = ""
    /\ aggregated_posts' = SortedPosts(aggregated_posts)
    /\ pc' = "render"
    /\ UNCHANGED <<raised, feeds, argname, feedidx, feedtype, include_all, sources,
                   confignameSets, extractCalls>>
    /\ UNCHANGED <<feedtypes, origin, isoVars, filterVars>>

\* line 223 raising
SortRaises ==
    /\ pc = "loop" /\ feedidx > Len(feeds)
    /\ SortError(aggregated_posts) # ""
    /\ raised' = Exception(SortError(aggregated_posts),
                           "sort", 0)
    /\ pc' = "raised"
    /\ UNCHANGED <<feeds, argname, feedidx, feedtype, include_all, sources,
                   aggregated_posts, confignameSets, extractCalls>>
    /\ UNCHANGED <<feedtypes, origin, isoVars, filterVars>>

\* lines 225-228: the sorted list is handed to the templates
Render ==
    /\ pc = "render"
    /\ pc' = "done"
    /\ UNCHANGED <<raised, feeds, argname, feedidx, feedtype, include_all, sources,
                   aggregated_posts, confignameSets, extractCalls>>
    /\ UNCHANGED <<feedtypes, origin, isoVars, filterVars>>

Next ==
    \/ SkipFeed
    \/ FetchFeed
    \/ FetchFeedRaises
    \/ ExcludeEntry
    \/ IncludeEntry
    \/ EntryRaises
    \/ EndFeed
    \/ SortPosts
    \/ SortRaises
    \/ Render

Spec == Init /\ [][Next]_vars

(***************************************************************************)
(* isoformat_to_rfc3339 applied to ISO 8601 texts                          *)
(***************************************************************************)
IsoHours == 10..(10 + HourSpan)
IsoZones == {<<FALSE, 0>>, <<TRUE, 0>>, <<TRUE, 330>>, <<TRUE, -300>>, <<TRUE, -30>>}

IsoInputs ==
    {isoformat(DateTime(h, m, z[1], z[2])) : h \in IsoHours, m \in {0, 30}, z \in IsoZones}
    \cup {StripToZ(DateTime(h, 0, TRUE, 0)) : h \in IsoHours}
    \cup {<<"2", "0", "2", "4">>}

InitIsoSpec == NoMain /\ InitFilter /\ isoIn \in IsoInputs /\ isoOut = None

CallIsoformatToRfc3339 ==
    /\ isoOut = None
    /\ isoOut' = isoformat_to_rfc3339(isoIn)
    /\ UNCHANGED <<isoIn, mainVars, filterVars>>

NextIso == CallIsoformatToRfc3339

SpecIso == InitIsoSpec /\ [][NextIso]_vars

(***************************************************************************)
(* The filter functions applied to policies and entries                    *)
(***************************************************************************)
TermX == <<"x">>
CategoryElements ==
    {Elem(Tech), Elem(News), ElemA(Tech, "term" :> TermX), ElemA(News, "term" :> TermX)}

RECURSIVE ListsUpTo(_, _)
ListsUpTo(S, n) ==
    IF n = 0 THEN {<<>>}
    ELSE ListsUpTo(S, n - 1) \cup {Append(l, x) : l \in ListsUpTo(S, n - 1), x \in S}

FilterEntries ==
    {Entry(c, cats) :
        c \in {NoChildren, "title" :> Elem(TitleText), "title" :> Elem(<<"z">>)},
        cats \in ListsUpTo(CategoryElements, MaxCategories)}

CategoryPolicies ==
    {Unconfigured,
     Policy(<<>>),
     Policy(<< <<>> >>),
     Policy(<< << <<"text", Tech>> >> >>),
     Policy(<< << <<"text", Tech>>, <<"term", TermX>> >> >>),
     Policy(<< << <<"term", TermX>>, <<"text", News>> >>, << <<"scheme", TermX>> >> >>)}

PostsPolicies ==
    {Unconfigured,
     Policy(<< << <<"title", TitleText>> >> >>),
     Policy(<< << <<"author", <<"b">>>>, <<"title", <<"z">>>> >> >>)}

InitFilterSpec ==
    /\ NoMain /\ InitIso
    /\ fCategory \in CategoryPolicies
    /\ fPosts \in PostsPolicies
    /\ fEntry \in FilterEntries
    /\ fResult = [op |-> "", value |-> FALSE]

CallMatchesCategory ==
    /\ fResult' = [op |-> "matches_category", value |-> matches_category(fCategory, fEntry)]
    /\ UNCHANGED <<fCategory, fPosts, fEntry, mainVars, isoVars>>

CallMatchesPosts ==
    /\ fResult' = [op |-> "matches_posts", value |-> matches_posts(fPosts, fEntry)]
    /\ UNCHANGED <<fCategory, fPosts, fEntry, mainVars, isoVars>>

\* lines 214-218 for a feed with the policies fCategory and fPosts
CallShouldInclude ==
    /\ LET feed == [name |-> FeedName(1), category |-> fCategory, posts |-> fPosts]
       IN  fResult' = [op |-> "should_include",
                       value |-> ShouldInclude(IncludeAll(feed), feed, fEntry)]
    /\ UNCHANGED <<fCategory, fPosts, fEntry, mainVars, isoVars>>

NextFilter ==
    \/ CallMatchesCategory
    \/ CallMatchesPosts
    \/ CallShouldInclude

SpecFilter == InitFilterSpec /\ [][NextFilter]_vars

(***************************************************************************)
(* Properties                                                              *)
(***************************************************************************)
Sorted == pc \in {"render", "done"}
AtSort == pc = "loop" /\ feedidx > Len(feeds)
PostIndexes == 1..Len(aggregated_posts)
PublishedInstant(post) == Instant(fromisoformat(post.published))

\* C1: once main has sorted, the posts handed to rendering are in descending
\* order of published: no post is followed by one published later.
C1_SortedDescending ==
    Sorted => \A i, j \in PostIndexes :
                 i < j => PublishedInstant(aggregated_posts[i]) >= PublishedInstant(aggregated_posts[j])

\* C1 witness: posts of two feeds, appended oldest first, have been sorted and rendered
C1_Witness ==
    /\ pc = "done"
    /\ \E i, j \in PostIndexes :
         /\ i < j
         /\ PublishedInstant(aggregated_posts[i]) > PublishedInstant(aggregated_posts[j])
         /\ aggregated_posts[i].obj > aggregated_posts[j].obj
         /\ origin[aggregated_posts[i].obj] # origin[aggregated_posts[j].obj]

C3_EntryFailureSkipsEntry ==
    raised.at = "entry" => pc # "raised"

\* C4 as stated: a feed whose root is unknown or whose source extraction fails
\* is skipped; it never ends the run.
C4_FeedFailureSkipsFeed ==
    raised.at = "source" => pc # "raised"

\* what the claims C5 and C6 call a match
PairHolds(element, item) ==
    IF item[1] = "text" THEN element.text = item[2] ELSE Get(element, item[1]) = item[2]
CategoryPolicyMatches(spec, entry) ==
    /\ spec.configured
    /\ \E a \in 1..Len(spec.specs), c \in 1..Len(entry.cats) :
         \A k \in 1..Len(spec.specs[a]) : PairHolds(entry.cats[c], spec.specs[a][k])
PostsPolicyMatches(spec, entry) ==
    /\ spec.configured
    /\ \E a \in 1..Len(spec.specs) : \E k \in 1..Len(spec.specs[a]) :
         /\ Find(entry, spec.specs[a][k][1]).present
         /\ Find(entry, spec.specs[a][k][1]).text = spec.specs[a][k][2]

\* C5: the inclusion decision is TRUE when neither policy is configured, and
\* otherwise is (the category policy matches) or (the posts policy matches).
C5_InclusionDecision ==
    fResult.op = "should_include" =>
        fResult.value = (IF ~fCategory.configured /\ ~fPosts.configured THEN TRUE
                         ELSE \/ CategoryPolicyMatches(fCategory, fEntry)
                              \/ PostsPolicyMatches(fPosts, fEntry))

\* C5 witness: both policies configured, only the category policy matches, entry included
C5_Witness ==
    /\ fResult = [op |-> "should_include", value |-> TRUE]
    /\ fCategory.configured /\ fPosts.configured
    /\ CategoryPolicyMatches(fCategory, fEntry)
    /\ ~PostsPolicyMatches(fPosts, fEntry)

\* C6: matches_category is TRUE exactly when one mapping of the list has all
\* its pairs matched by one and the same category element of the entry.
C6_MatchesCategory ==
    fResult.op = "matches_category" =>
        fResult.value = CategoryPolicyMatches(fCategory, fEntry)

\* C6 witness: each pair of a two-pair mapping is matched by some category
\* element, no element matches both, and the result is FALSE
C6_Witness ==
    /\ fResult = [op |-> "matches_category", value |-> FALSE]
    /\ fCategory.configured
    /\ \E a \in 1..Len(fCategory.specs) :
         /\ Len(fCategory.specs[a]) = 2
         /\ \A k \in 1..2 : \E c \in 1..Len(fEntry.cats) :
              PairHolds(fEntry.cats[c], fCategory.specs[a][k])

\* C7 as stated: every Post in the collection has title, published, id and link.
C7_PostsComplete ==
    \A i \in PostIndexes :
        /\ aggregated_posts[i].title # None
        /\ aggregated_posts[i].published # None
        /\ aggregated_posts[i].id_ # None
        /\ aggregated_posts[i].link # None

\* C8: configName is set once per processed feed, before any post extraction of
\* that feed, keeping the name, uri and email the feed supplied; every Post
\* references a FeedSource whose author carries the configured name of the
\* feed the Post was built from.
C8_ConfignameBackfilled ==
    /\ \A f \in FeedIndexes :
         /\ confignameSets[f] <= 1
         /\ extractCalls[f] > 0 => confignameSets[f] = 1
         /\ sources[f].built =>
              /\ confignameSets[f] = 1
              /\ sources[f].author.configname = feeds[f].name
              /\ sources[f].author.uri = None
              /\ feedtypes[f] = "rss" => sources[f].author.name = None /\ sources[f].author.email = None
              /\ sources[f].author.name \in {None, <<"n">>}
              /\ sources[f].author.name = <<"n">> <=> sources[f].author.email = <<"e">>
    /\ \A i \in PostIndexes :
         LET post == aggregated_posts[i] IN
         /\ sources[post.source].built
         /\ ~sources[post.source].author.isNone
         /\ sources[post.source].author.configname = feeds[origin[post.obj]].name

\* C8 witness: a post of a feed that supplied an author and a post of a feed
\* that supplied none have been collected
C8_Witness ==
    \E i, j \in PostIndexes :
        /\ sources[aggregated_posts[i].source].author.name = <<"n">>
        /\ sources[aggregated_posts[j].source].author.name = None
        /\ origin[aggregated_posts[i].obj] # origin[aggregated_posts[j].obj]

\* an ISO text that ends in a numeric offset +HH:MM or -HH:MM
EndsInOffset(s) ==
    /\ Len(s) >= 6
    /\ FromEnd(s, 6) \in {"+", "-"} /\ FromEnd(s, 3) = ":"
    /\ \A n \in {5, 4, 2, 1} : IsDigit(FromEnd(s, n))

\* C9 as stated: for a text ending in +HH:MM or -HH:MM the result is the text
\* without the offset, followed by Z.
C9_OffsetReplacedByZ ==
    (isoOut # None /\ EndsInOffset(isoIn)) => isoOut = DropLast(isoIn, 6) \o <<"Z">>

\* a UTC timestamp text: wall-clock digits without a numeric offset, ending in Z
Canonical(s) ==
    /\ s # None
    /\ EndsWith(s, "Z")
    /\ ~EndsInOffset(DropLast(s, 1))
    /\ fromisoformat(s).error = ""
    /\ fromisoformat(s).aware
    /\ fromisoformat(s).utcoffset = 0

AtomTimestampTexts ==
    {(IF Find(e, "atom:published").present
      THEN Find(e, "atom:published") ELSE Find(e, "atom:updated")).text :
        e \in {x \in Entries : Find(x, "atom:published").present \/ Find(x, "atom:updated").present}}

====
